---- MODULE Spec2Model ----
(***************************************************************************)
(* Vocabulary trainer (Streamlit).  Two variants of the same script:       *)
(*   "sample" : src/vocabulary-trainer-web.py (built-in word table)        *)
(*   "sheets" : src/unnamed/part_000 (Google Sheets word table, keeps an   *)
(*              'attempts' log per word)                                   *)
(* One action is one run of main(): Streamlit re-runs the whole script on  *)
(* every widget interaction; st.session_state survives between runs.       *)
(* Strings that are compared by the program (answers, 'ingles') are        *)
(* sequences of one-character strings so that lower() is computed.         *)
(* Weights and rates are exact fractions <<numerator, denominator>>.       *)
(***************************************************************************)
EXTENDS Integers, Sequences, FiniteSets, TLC

VARIABLES variant, py39, sheet, df, menu_option, selected_topic,
          ss_keys, ss_history, ss_current_word, history, last,
          attempted, submits, matches

vars == <<variant, py39, sheet, df, menu_option, selected_topic,
          ss_keys, ss_history, ss_current_word, history, last,
          attempted, submits, matches>>

\* bookkeeping of what the user did since the last reset (not program state):
\* the words an answer was submitted for, the number of answers submitted and
\* the number of those the handler accepted
tally == <<attempted, submits, matches>>

\* ---------------------------------------------------------------- bounds
\* answer-submits allowed between two resets
MaxAttempts == 4

\* ---------------------------------------------------------------- strings
LowerChar(c) ==
  CASE c = "D" -> "d" [] c = "O" -> "o" [] c = "G" -> "g"
    [] c = "C" -> "c" [] c = "A" -> "a" [] c = "T" -> "t"
    [] c = "H" -> "h" [] c = "U" -> "u" [] c = "S" -> "s"
    [] c = "E" -> "e" [] c = "R" -> "r" [] c = "B" -> "b"
    [] c = "K" -> "k" [] c = "N" -> "n"
    [] OTHER -> c

UpperChar(c) ==
  CASE c = "d" -> "D" [] c = "o" -> "O" [] c = "g" -> "G"
    [] c = "c" -> "C" [] c = "a" -> "A" [] c = "t" -> "T"
    [] c = "h" -> "H" [] c = "u" -> "U" [] c = "s" -> "S"
    [] c = "e" -> "E" [] c = "r" -> "R" [] c = "b" -> "B"
    [] c = "k" -> "K" [] c = "n" -> "N"
    [] OTHER -> c

\* str.lower()
lower(s) == [i \in 1..Len(s) |-> LowerChar(s[i])]

upper(s) == [i \in 1..Len(s) |-> UpperChar(s[i])]

\* ---------------------------------------------------------------- word tables
Row(es, en, tem) ==
  [espanol |-> es, ingles |-> en, tematica |-> tem, comentarios |-> ""]

\* VocabularyTrainer.load_sample_data
load_sample_data ==
  << Row("perro", <<"d","o","g">>,         "animales"),
     Row("gato",  <<"c","a","t">>,         "animales"),
     Row("casa",  <<"h","o","u","s","e">>, "hogar"),
     Row("coche", <<"c","a","r">>,         "transporte"),
     Row("libro", <<"b","o","o","k">>,     "educacion") >>

expected_columns == {"TEMATICA", "INGLES", "ESPANOL", "COMENTARIOS"}

\* worksheets the "sheets" variant may be pointed at
Sheets ==
  { [columns |-> expected_columns,
     rows |-> << Row("perro", <<"d","o","g">>,     "animals"),
                 Row("gato",  <<"c","a","t">>,     "animals"),
                 Row("libro", <<"b","o","o","k">>, "education") >>],
    [columns |-> expected_columns,
     rows |-> << Row("casa",  <<"H","o","u","s","e">>, "hogar"),
                 Row("banco", <<"b","a","n","k">>,     ""),
                 Row("banco", <<"b","e","n","c","h">>, "hogar") >>],
    [columns |-> expected_columns \ {"COMENTARIOS"},
     rows |-> << Row("perro", <<"d","o","g">>, "animals") >>],
    [columns |-> expected_columns \ {"TEMATICA"},
     rows |-> << Row("perro", <<"d","o","g">>, "") >>] }

NoSheet == [columns |-> {}, rows |-> <<>>]

\* ---------------------------------------------------------------- history
EmptyHistory == [w \in {} |-> 0]

NewRecord(tem) ==
  IF variant = "sheets"
    THEN [correct |-> 0, total |-> 0, tematica |-> tem, attempts |-> <<>>]
    ELSE [correct |-> 0, total |-> 0, tematica |-> tem]

\* ---------------------------------------------------------------- fractions
FrAdd(a, b) == <<a[1] * b[2] + b[1] * a[2], a[2] * b[2]>>
FrLess(a, b) == a[1] * b[2] < b[1] * a[2]
FrEq(a, b) == a[1] * b[2] = b[1] * a[2]
FrLeq(a, b) == a[1] * b[2] <= b[1] * a[2]

\* get_word_weight returning the success rate itself
get_word_weight_rate(h, word) ==
  IF word \notin DOMAIN h THEN <<1, 1>>
  ELSE LET correct == h[word].correct
           total == h[word].total
       IN IF total = 0 THEN <<1, 1>>
          ELSE <<correct, total>>

\* VocabularyTrainer.get_word_weight
get_word_weight(h, word) ==
  IF word \notin DOMAIN h THEN <<1, 1>>
  ELSE LET correct == h[word].correct
           total == h[word].total
       IN IF total = 0 THEN <<1, 1>>
          ELSE <<total - correct, total>>

\* ---------------------------------------------------------------- selection
Sentinel == "Todas las tematicas"

\* Optional values: <<>> is Python's None, <<x>> is the value x.
None == <<>>

\* truth value of `selected_topic` in `if selected_topic and ...`
Truthy(t) == t # None /\ t[1] # ""

RECURSIVE SumWeights(_)
SumWeights(ws) ==
  IF ws = <<>> THEN <<0, 1>>
  ELSE FrAdd(ws[1], SumWeights(Tail(ws)))

Raise(e) == [raised |-> e, index |-> 0]
Return(i) == [raised |-> "", index |-> i]

\* an unweighted draw: random.choice over the indices
choices_unweighted(n, weights, newpy) ==
  IF weights = <<>> THEN {Raise("IndexError")}
  ELSE {Return(i) : i \in 1..n}

\* random.choices(range(n), weights=weights)[0]; indices are 1-based here.
\* cum_weights[-1] of an empty list raises IndexError.  A total of zero raises
\* ValueError from Python 3.9 on; before 3.9 bisect over the all-equal
\* cumulative weights yields the last index.  With a positive total,
\* bisect(cum_weights, random() * total) lands on an index whose own weight is
\* positive.
choices(n, weights, newpy) ==
  IF weights = <<>> THEN {Raise("IndexError")}
  ELSE IF ~ FrLess(<<0, 1>>, SumWeights(weights))
    THEN IF newpy THEN {Raise("ValueError")} ELSE {Return(n)}
  ELSE {Return(i) : i \in {j \in 1..n : FrLess(<<0, 1>>, weights[j])}}

\* outcome of a select_word call: the exception raised or the row returned,
\* and self.history as the call leaves it
Raised(e, h) == [raised |-> e, row |-> None, history |-> h]
Returned(r, h) == [raised |-> "", row |-> r, history |-> h]

Draw(rows, h, newpy) ==
  LET weights == [i \in 1..Len(rows) |-> get_word_weight(h, rows[i].espanol)]
  IN { IF c.raised # "" THEN Raised(c.raised, h)
       ELSE Returned(<<rows[c.index]>>, h)
       : c \in choices(Len(rows), weights, newpy) }

\* select_word leaving a zeroed record behind for the word it returns
select_word_seen(d, h, topic, newpy) ==
  LET rows == IF Truthy(topic) /\ topic[1] # Sentinel
                THEN SelectSeq(d, LAMBDA r : r.tematica = topic[1])
                ELSE d
      seen(o) == IF o.row = None \/ o.row[1].espanol \in DOMAIN h THEN h
                 ELSE [w \in DOMAIN h \cup {o.row[1].espanol} |->
                         IF w \in DOMAIN h THEN h[w]
                         ELSE NewRecord(o.row[1].tematica)]
  IN IF rows = <<>> /\ Truthy(topic) /\ topic[1] # Sentinel
       THEN {Returned(None, h)}
       ELSE {[o EXCEPT !.history = seen(o)] : o \in Draw(rows, h, newpy)}

\* VocabularyTrainer.select_word: the set of possible outcomes
select_word(d, h, topic, newpy) ==
  IF Truthy(topic) /\ topic[1] # Sentinel
    THEN LET topic_df == SelectSeq(d, LAMBDA r : r.tematica = topic[1])
         IN IF topic_df = <<>> THEN {Returned(None, h)}
            ELSE Draw(topic_df, h, newpy)
    ELSE Draw(d, h, newpy)

\* VocabularyTrainer.get_available_topics (order is irrelevant to the model)
get_available_topics(d) == {d[i].tematica : i \in 1..Len(d)}

\* ---------------------------------------------------------------- statistics
Rate(correct, total) == IF total > 0 THEN <<correct * 100, total>> ELSE <<0, 1>>

RECURSIVE Accumulate_overwrite(_, _, _)
\* the loop assigning instead of adding
Accumulate_overwrite(h, todo, acc) ==
  IF todo = {} THEN acc
  ELSE LET word == CHOOSE w \in todo : TRUE
           tematica == h[word].tematica
           new == [correct |-> h[word].correct, total |-> h[word].total]
       IN Accumulate_overwrite(h, todo \ {word},
                     [t \in DOMAIN acc \cup {tematica} |->
                        IF t = tematica THEN new ELSE acc[t]])

RECURSIVE Accumulate(_, _, _)
\* the loop `for word, data in trainer.history.items()` over tematica_stats
Accumulate(h, todo, acc) ==
  IF todo = {} THEN acc
  ELSE LET word == CHOOSE w \in todo : TRUE
           tematica == h[word].tematica
           old == IF tematica \in DOMAIN acc THEN acc[tematica]
                  ELSE [correct |-> 0, total |-> 0]
           new == [correct |-> old.correct + h[word].correct,
                   total |-> old.total + h[word].total]
       IN Accumulate(h, todo \ {word},
                     [t \in DOMAIN acc \cup {tematica} |->
                        IF t = tematica THEN new ELSE acc[t]])

NoStats == [t \in {} |-> 0]

\* the Estadisticas page: topic -> correct, total, success_rate
aggregateByTopic(h) ==
  IF DOMAIN h = {} THEN NoStats
  ELSE LET tematica_stats == Accumulate(h, DOMAIN h, NoStats)
       IN [t \in DOMAIN tematica_stats |->
             [correct |-> tematica_stats[t].correct,
              total |-> tematica_stats[t].total,
              success_rate |-> Rate(tematica_stats[t].correct,
                                    tematica_stats[t].total)]]

\* ---------------------------------------------------------------- session
\* what the last run did: the operation, the exception it ended with, the
\* argument select_word was called with, the answer submitted and its outcome,
\* the statistics shown, the number of records a reset dropped
Last(op, raised, topic, answer, matched, stats, cleared) ==
  [op |-> op, raised |-> raised, topic |-> topic, answer |-> answer,
   matched |-> matched, stats |-> stats, cleared |-> cleared]

Did(op) == Last(op, "", None, <<>>, FALSE, [t \in {} |-> 0], 0)

Init ==
  /\ variant \in {"sample", "sheets"}
  /\ py39 \in BOOLEAN
  /\ sheet \in IF variant = "sheets" THEN Sheets ELSE {NoSheet}
  /\ df = <<>>
  /\ menu_option = "none"
  /\ selected_topic = Sentinel
  /\ ss_keys = {}
  /\ ss_history = EmptyHistory
  /\ ss_current_word = None
  /\ history = EmptyHistory
  /\ last = Did("none")
  /\ attempted = {}
  /\ submits = 0
  /\ matches = 0

\* the column check skipped
missing_columns_unchecked == {}

\* VocabularyTrainer.setup_google_sheets: the columns the check finds missing
missing_columns == expected_columns \ sheet.columns

\* VocabularyTrainer.__init__ succeeds (the sample table always loads)
InitOk == variant = "sample" \/ missing_columns = {}

\* self.df after a successful __init__
LoadedDf == IF variant = "sample" THEN load_sample_data ELSE sheet.rows

\* load_history creating a 0/0 record for every word of the table
load_history_prefill ==
  IF "history" \in ss_keys THEN ss_history
  ELSE LET d == IF variant = "sample" THEN load_sample_data ELSE sheet.rows
       IN [w \in {d[i].espanol : i \in 1..Len(d)} |->
             NewRecord((CHOOSE r \in {d[i] : i \in 1..Len(d)} : r.espanol = w).tematica)]

\* load_history / setup_history: the map self.history is bound to
load_history == IF "history" \in ss_keys THEN ss_history ELSE EmptyHistory

\* what the page of the previous run offers
SidebarShown == menu_option # "none"
TopicOptions ==
  IF menu_option = "Practicar"
    THEN {Sentinel} \cup get_available_topics(df)
    ELSE {Sentinel}
ButtonsShown ==
  /\ menu_option = "Practicar"
  /\ "current_word" \in ss_keys
  /\ ss_current_word # None

\* `if selected_topic == "Todas las tematicas": selected_topic = None`
TopicArg(t) == IF t = Sentinel THEN None ELSE <<t>>

\* main() raising in setup_google_sheets: st.error, st.stop()
InitFailure ==
  /\ ~ InitOk
  /\ last' = [Did("init_error") EXCEPT !.raised = "ValueError"]
  /\ UNCHANGED <<variant, py39, sheet, df, menu_option, selected_topic,
                 ss_keys, ss_history, ss_current_word, history>>
  /\ UNCHANGED tally

\* the Practicar run selecting a word on every run
RunPracticar_reselect(topic) ==
  /\ InitOk
  /\ topic \in TopicOptions
  /\ df' = LoadedDf
  /\ menu_option' = "Practicar"
  /\ selected_topic' = topic
  /\ IF TRUE
       THEN \E r \in select_word(LoadedDf, load_history, TopicArg(topic), py39) :
              /\ last' = [Did("select") EXCEPT !.raised = r.raised,
                                               !.topic = TopicArg(topic)]
              /\ history' = r.history
              /\ ss_history' = r.history
              /\ IF r.raised # ""
                   THEN /\ ss_keys' = ss_keys \cup {"history"}
                        /\ UNCHANGED ss_current_word
                   ELSE /\ ss_keys' = ss_keys \cup {"history", "current_word"}
                        /\ ss_current_word' = r.row
       ELSE /\ last' = Did("show")
            /\ history' = load_history
            /\ ss_history' = load_history
            /\ ss_keys' = ss_keys \cup {"history"}
            /\ UNCHANGED ss_current_word
  /\ UNCHANGED <<variant, py39, sheet>>
  /\ UNCHANGED tally

\* a run on the Practicar page with no button pressed: first load, a change of
\* topic, typing into the text input, or coming back from another page
RunPracticar(topic) ==
  /\ InitOk
  /\ topic \in TopicOptions
  /\ df' = LoadedDf
  /\ menu_option' = "Practicar"
  /\ selected_topic' = topic
  /\ IF "current_word" \notin ss_keys
       THEN \E r \in select_word(LoadedDf, load_history, TopicArg(topic), py39) :
              /\ last' = [Did("select") EXCEPT !.raised = r.raised,
                                               !.topic = TopicArg(topic)]
              /\ history' = r.history
              /\ ss_history' = r.history
              /\ IF r.raised # ""
                   THEN /\ ss_keys' = ss_keys \cup {"history"}
                        /\ UNCHANGED ss_current_word
                   ELSE /\ ss_keys' = ss_keys \cup {"history", "current_word"}
                        /\ ss_current_word' = r.row
       ELSE /\ last' = Did("show")
            /\ history' = load_history
            /\ ss_history' = load_history
            /\ ss_keys' = ss_keys \cup {"history"}
            /\ UNCHANGED ss_current_word
  /\ UNCHANGED <<variant, py39, sheet>>
  /\ UNCHANGED tally

\* the answers a user may type for a word whose translation is `target`
Answers(target) ==
  {target, upper(target), <<" ">> \o target \o <<" ">>, <<"x">>}

\* the outcome the handler computes: user_answer.lower() == ingles.lower()
IsCorrect(user_answer, ingles) == lower(user_answer) = lower(ingles)

\* the handler counting only correct answers in 'total'
recordAttempt_skipTotal(h, current_word, user_answer) ==
  LET word == current_word.espanol
      ok == IsCorrect(user_answer, current_word.ingles)
      h1 == IF word \notin DOMAIN h
              THEN [w \in DOMAIN h \cup {word} |->
                      IF w = word THEN NewRecord(current_word.tematica)
                      ELSE h[w]]
              ELSE h
      r1 == IF ok THEN [h1[word] EXCEPT !.correct = @ + 1, !.total = @ + 1]
            ELSE h1[word]
  IN [h1 EXCEPT ![word] = r1]

\* the handler forgetting 'total' in the matching branch
recordAttempt_correctOnly(h, current_word, user_answer) ==
  LET word == current_word.espanol
      ok == IsCorrect(user_answer, current_word.ingles)
      h1 == IF word \notin DOMAIN h
              THEN [w \in DOMAIN h \cup {word} |->
                      IF w = word THEN NewRecord(current_word.tematica)
                      ELSE h[w]]
              ELSE h
      r1 == IF ok THEN [h1[word] EXCEPT !.correct = @ + 1]
            ELSE [h1[word] EXCEPT !.total = @ + 1]
      r2 == IF variant = "sheets"
              THEN [r1 EXCEPT !.attempts = Append(@, [correct |-> ok])]
              ELSE r1
  IN [h1 EXCEPT ![word] = r2]

\* the handler creating the record anew on every attempt
recordAttempt_recreate(h, current_word, user_answer) ==
  LET word == current_word.espanol
      ok == IsCorrect(user_answer, current_word.ingles)
      h1 == [w \in DOMAIN h \cup {word} |->
               IF w = word THEN NewRecord(current_word.tematica) ELSE h[w]]
      r1 == IF ok THEN [h1[word] EXCEPT !.correct = @ + 1, !.total = @ + 1]
            ELSE [h1[word] EXCEPT !.total = @ + 1]
      r2 == IF variant = "sheets"
              THEN [r1 EXCEPT !.attempts = Append(@, [correct |-> ok])]
              ELSE r1
  IN [h1 EXCEPT ![word] = r2]

\* the handler storing the topic of the displayed entry on every attempt
recordAttempt_retopic(h, current_word, user_answer) ==
  LET word == current_word.espanol
      ok == IsCorrect(user_answer, current_word.ingles)
      h1 == IF word \notin DOMAIN h
              THEN [w \in DOMAIN h \cup {word} |->
                      IF w = word THEN NewRecord(current_word.tematica)
                      ELSE h[w]]
              ELSE h
      r1 == IF ok THEN [h1[word] EXCEPT !.correct = @ + 1, !.total = @ + 1]
            ELSE [h1[word] EXCEPT !.total = @ + 1]
      r2 == IF variant = "sheets"
              THEN [r1 EXCEPT !.attempts = Append(@, [correct |-> ok])]
              ELSE r1
  IN [h1 EXCEPT ![word] = [r2 EXCEPT !.tematica = current_word.tematica]]

\* the handler appending to 'attempts' in the matching branch only
recordAttempt_logCorrectOnly(h, current_word, user_answer) ==
  LET word == current_word.espanol
      ok == IsCorrect(user_answer, current_word.ingles)
      h1 == IF word \notin DOMAIN h
              THEN [w \in DOMAIN h \cup {word} |->
                      IF w = word THEN NewRecord(current_word.tematica)
                      ELSE h[w]]
              ELSE h
      r1 == IF ok THEN [h1[word] EXCEPT !.correct = @ + 1, !.total = @ + 1]
            ELSE [h1[word] EXCEPT !.total = @ + 1]
      r2 == IF variant = "sheets" /\ ok
              THEN [r1 EXCEPT !.attempts = Append(@, [correct |-> ok])]
              ELSE r1
  IN [h1 EXCEPT ![word] = r2]

\* the handler raising 'total' of every record of the displayed word's topic
recordAttempt_touchTopic(h, current_word, user_answer) ==
  LET word == current_word.espanol
      ok == IsCorrect(user_answer, current_word.ingles)
      h1 == IF word \notin DOMAIN h
              THEN [w \in DOMAIN h \cup {word} |->
                      IF w = word THEN NewRecord(current_word.tematica)
                      ELSE h[w]]
              ELSE h
      r1 == IF ok THEN [h1[word] EXCEPT !.correct = @ + 1, !.total = @ + 1]
            ELSE [h1[word] EXCEPT !.total = @ + 1]
      r2 == IF variant = "sheets"
              THEN [r1 EXCEPT !.attempts = Append(@, [correct |-> ok])]
              ELSE r1
  IN [w \in DOMAIN h1 |->
        IF w = word THEN r2
        ELSE IF h1[w].tematica = r2.tematica
               THEN [h1[w] EXCEPT !.total = @ + 1]
               ELSE h1[w]]

\* the statistics update of the 'Comprobar' handler; an entry of 'attempts' is
\* modelled by its 'correct' flag, its 'date' is left out
recordAttempt(h, current_word, user_answer) ==
  LET word == current_word.espanol
      ok == IsCorrect(user_answer, current_word.ingles)
      h1 == IF word \notin DOMAIN h
              THEN [w \in DOMAIN h \cup {word} |->
                      IF w = word THEN NewRecord(current_word.tematica)
                      ELSE h[w]]
              ELSE h
      r1 == IF ok THEN [h1[word] EXCEPT !.correct = @ + 1, !.total = @ + 1]
            ELSE [h1[word] EXCEPT !.total = @ + 1]
      r2 == IF variant = "sheets"
              THEN [r1 EXCEPT !.attempts = Append(@, [correct |-> ok])]
              ELSE r1
  IN [h1 EXCEPT ![word] = r2]

RECURSIVE SumTotal(_, _)
SumTotal(h, ws) ==
  IF ws = {} THEN 0
  ELSE LET w == CHOOSE x \in ws : TRUE
       IN h[w].total + SumTotal(h, ws \ {w})

\* the 'Comprobar' button
Comprobar(user_answer) ==
  /\ InitOk
  /\ ButtonsShown
  /\ SumTotal(load_history, DOMAIN load_history) < MaxAttempts
  /\ user_answer \in Answers(ss_current_word[1].ingles)
  /\ df' = LoadedDf
  /\ history' = recordAttempt(load_history, ss_current_word[1], user_answer)
  /\ ss_history' = history'
  /\ ss_keys' = ss_keys \cup {"history"}
  /\ last' = [Did("comprobar") EXCEPT
                !.answer = user_answer,
                !.matched = IsCorrect(user_answer, ss_current_word[1].ingles)]
  /\ attempted' = attempted \cup {ss_current_word[1].espanol}
  /\ submits' = submits + 1
  /\ matches' = matches + (IF IsCorrect(user_answer, ss_current_word[1].ingles)
                             THEN 1 ELSE 0)
  /\ UNCHANGED <<variant, py39, sheet, menu_option, selected_topic,
                 ss_current_word>>

\* the 'Siguiente palabra' button (followed by st.experimental_rerun, whose run
\* finds current_word set and changes nothing)
SiguientePalabra ==
  /\ InitOk
  /\ ButtonsShown
  /\ df' = LoadedDf
  /\ ss_keys' = ss_keys \cup {"history"}
  /\ \E r \in select_word(LoadedDf, load_history, TopicArg(selected_topic), py39) :
       /\ last' = [Did("select") EXCEPT !.raised = r.raised,
                                        !.topic = TopicArg(selected_topic)]
       /\ history' = r.history
       /\ ss_history' = r.history
       /\ IF r.raised # ""
            THEN UNCHANGED ss_current_word
            ELSE ss_current_word' = r.row
  /\ UNCHANGED <<variant, py39, sheet, menu_option, selected_topic>>
  /\ UNCHANGED tally

\* the Estadisticas page
RunEstadisticas ==
  /\ InitOk
  /\ SidebarShown
  /\ df' = LoadedDf
  /\ menu_option' = "Estadisticas"
  /\ selected_topic' = Sentinel
  /\ history' = load_history
  /\ ss_history' = load_history
  /\ ss_keys' = ss_keys \cup {"history"}
  /\ last' = [Did("stats") EXCEPT !.stats = aggregateByTopic(load_history)]
  /\ UNCHANGED <<variant, py39, sheet, ss_current_word>>
  /\ UNCHANGED tally

\* the Resetear Estadisticas page, button not pressed
RunResetPage ==
  /\ InitOk
  /\ SidebarShown
  /\ df' = LoadedDf
  /\ menu_option' = "Resetear Estadisticas"
  /\ selected_topic' = Sentinel
  /\ history' = load_history
  /\ ss_history' = load_history
  /\ ss_keys' = ss_keys \cup {"history"}
  /\ last' = Did("reset_page")
  /\ UNCHANGED <<variant, py39, sheet, ss_current_word>>
  /\ UNCHANGED tally

\* reset_statistics without save_history
reset_statistics_nosave(h, ssh) == [history |-> EmptyHistory, ss_history |-> ssh]

\* VocabularyTrainer.reset_statistics: self.history = {}; self.save_history()
reset_statistics(h, ssh) == [history |-> EmptyHistory, ss_history |-> EmptyHistory]

\* the 'Resetear estadisticas' button
ResetClick ==
  /\ InitOk
  /\ menu_option = "Resetear Estadisticas"
  /\ df' = LoadedDf
  /\ LET r == reset_statistics(load_history, load_history)
     IN /\ history' = r.history
        /\ ss_history' = r.ss_history
  /\ ss_keys' = ss_keys \cup {"history"}
  /\ last' = [Did("reset") EXCEPT
                !.cleared = Cardinality(DOMAIN load_history)]
  /\ attempted' = {}
  /\ submits' = 0
  /\ matches' = 0
  /\ UNCHANGED <<variant, py39, sheet, menu_option, selected_topic,
                 ss_current_word>>

Next ==
  \/ InitFailure
  \/ \E topic \in {Sentinel} \cup get_available_topics(LoadedDf) : RunPracticar(topic)
  \/ \E a \in UNION {Answers(LoadedDf[i].ingles) : i \in 1..Len(LoadedDf)} : Comprobar(a)
  \/ SiguientePalabra
  \/ RunEstadisticas
  \/ RunResetPage
  \/ ResetClick

Spec == Init /\ [][Next]_vars

\* ---------------------------------------------------------------- the trainer driven directly
\* The operations of VocabularyTrainer and of the handlers applied to a trainer
\* whose word table and topic argument are arbitrary: select_word is a public
\* method, and main() only ever passes it a topic of a non-empty table.
ApiTables == {<<>>} \cup {sh.rows : sh \in {x \in Sheets : x.columns = expected_columns}}

ApiTopics == {None, <<Sentinel>>, <<"">>, <<"animals">>, <<"hogar">>, <<"musica">>}

InitApi ==
  /\ variant \in {"sample", "sheets"}
  /\ py39 \in BOOLEAN
  /\ sheet = NoSheet
  /\ df \in ApiTables
  /\ menu_option = "none"
  /\ selected_topic = Sentinel
  /\ ss_keys = {"history"}
  /\ ss_history = EmptyHistory
  /\ ss_current_word = None
  /\ history = EmptyHistory
  /\ last = Did("none")
  /\ attempted = {}
  /\ submits = 0
  /\ matches = 0

\* st.session_state.current_word = trainer.select_word(topic)
ApiSelectWord(topic) ==
  /\ \E r \in select_word(df, history, topic, py39) :
       /\ last' = [Did("select") EXCEPT !.raised = r.raised, !.topic = topic]
       /\ history' = r.history
       /\ ss_history' = r.history
       /\ IF r.raised # ""
            THEN UNCHANGED <<ss_keys, ss_current_word>>
            ELSE /\ ss_keys' = ss_keys \cup {"current_word"}
                 /\ ss_current_word' = r.row
  /\ UNCHANGED <<variant, py39, sheet, df, menu_option, selected_topic>>
  /\ UNCHANGED tally

\* the statistics update of 'Comprobar' on the word last returned
ApiRecordAttempt(user_answer) ==
  /\ ss_current_word # None
  /\ SumTotal(history, DOMAIN history) < MaxAttempts
  /\ user_answer \in Answers(ss_current_word[1].ingles)
  /\ history' = recordAttempt(history, ss_current_word[1], user_answer)
  /\ ss_history' = history'
  /\ last' = [Did("comprobar") EXCEPT
                !.answer = user_answer,
                !.matched = IsCorrect(user_answer, ss_current_word[1].ingles)]
  /\ attempted' = attempted \cup {ss_current_word[1].espanol}
  /\ submits' = submits + 1
  /\ matches' = matches + (IF IsCorrect(user_answer, ss_current_word[1].ingles)
                             THEN 1 ELSE 0)
  /\ UNCHANGED <<variant, py39, sheet, df, menu_option, selected_topic,
                 ss_keys, ss_current_word>>

\* trainer.reset_statistics()
ApiReset ==
  /\ LET r == reset_statistics(history, ss_history)
     IN /\ history' = r.history
        /\ ss_history' = r.ss_history
  /\ last' = [Did("reset") EXCEPT !.cleared = Cardinality(DOMAIN history)]
  /\ attempted' = {}
  /\ submits' = 0
  /\ matches' = 0
  /\ UNCHANGED <<variant, py39, sheet, df, menu_option, selected_topic,
                 ss_keys, ss_current_word>>

NextApi ==
  \/ \E topic \in ApiTopics : ApiSelectWord(topic)
  \/ \E a \in UNION {Answers(df[i].ingles) : i \in 1..Len(df)} : ApiRecordAttempt(a)
  \/ ApiReset

SpecApi == InitApi /\ [][NextApi]_vars

\* ================================================================ properties
\* the record of a word before an attempt, a missing record counting as 0/0
Before(h, w) ==
  IF w \in DOMAIN h THEN h[w] ELSE [correct |-> 0, total |-> 0]

\* str.strip(): leading and trailing blanks removed
RECURSIVE strip(_)
strip(s) ==
  IF s = <<>> THEN s
  ELSE IF Head(s) = " " THEN strip(Tail(s))
  ELSE IF s[Len(s)] = " " THEN strip(SubSeq(s, 1, Len(s) - 1))
  ELSE s

\* the rows select_word draws from under a topic argument; an empty topic
\* string counts as no filter here, as in the code (C4 is about that case)
Candidates(d, topic) ==
  IF Truthy(topic) /\ topic[1] # Sentinel
    THEN {d[i] : i \in {j \in 1..Len(d) : d[j].tematica = topic[1]}}
    ELSE {d[i] : i \in 1..Len(d)}

\* C1: one 'Comprobar' on the displayed entry leaves its record with
\* total = total before + 1 and correct = correct before + (1 if the answer
\* matched else 0), a missing record counting as 0/0 before.
C1_RecordAttemptCounts ==
  [][last'.op = "comprobar" =>
       LET w == ss_current_word[1].espanol
           b == Before(ss_history, w)
       IN /\ w \in DOMAIN history'
          /\ history'[w].total = b.total + 1
          /\ history'[w].correct = b.correct + (IF last'.matched THEN 1 ELSE 0)
          /\ ss_history' = history']_vars

C1_Witness ==
  /\ last.op = "comprobar"
  /\ last.matched
  /\ \E w \in DOMAIN history :
       /\ ss_current_word # None
       /\ ss_current_word[1].espanol = w
       /\ history[w].total = 3
       /\ history[w].correct = 2

\* C2: select_word over a non-empty candidate set does not fail and returns
\* one of the candidates, also when every candidate has weight 0.
C2_SelectNeverFails ==
  (last.op = "select" /\ Candidates(df, last.topic) # {}) =>
     /\ last.raised = ""
     /\ ss_current_word # None
     /\ ss_current_word[1] \in Candidates(df, last.topic)

C4_FilterRespected ==
  (/\ last.op = "select"
   /\ last.raised = ""
   /\ last.topic # None
   /\ last.topic # <<Sentinel>>
   /\ ss_current_word # None) =>
     ss_current_word[1].tematica = last.topic[1]

\* C5: an answer is registered as correct exactly when the answer, stripped of
\* leading and trailing blanks, equals the translation ignoring case.
C5_TrimmedCaseInsensitive ==
  [][last'.op = "comprobar" =>
       LET w == ss_current_word[1].espanol
       IN (history'[w].correct = Before(ss_history, w).correct + 1)
            <=> (lower(strip(last'.answer)) = lower(ss_current_word[1].ingles))]_vars

\* C6: the weight of a word is 1 without a record and 1 - correct/total with
\* one; it lies in [0, 1], is strictly decreasing in the success rate, is 1
\* after 0 of 3 correct and 3/4 after 1 of 4 correct.
C6_Weight ==
  /\ \A w \in {r.espanol : r \in Candidates(df, None)} \cup {"nunca"} :
       LET wt == get_word_weight(history, w)
       IN /\ wt[2] > 0
          /\ FrLeq(<<0, 1>>, wt) /\ FrLeq(wt, <<1, 1>>)
          /\ w \notin DOMAIN history => FrEq(wt, <<1, 1>>)
          /\ w \in DOMAIN history =>
               /\ history[w].total > 0
               /\ FrEq(FrAdd(wt, <<history[w].correct, history[w].total>>), <<1, 1>>)
               /\ (history[w].correct = 0 /\ history[w].total = 3) => FrEq(wt, <<1, 1>>)
               /\ (history[w].correct = 1 /\ history[w].total = 4) => FrEq(wt, <<3, 4>>)
  /\ \A w1, w2 \in DOMAIN history :
       FrLess(<<history[w1].correct, history[w1].total>>,
              <<history[w2].correct, history[w2].total>>)
         => FrLess(get_word_weight(history, w2), get_word_weight(history, w1))

C6_Witness ==
  /\ variant = "sheets"
  /\ "perro" \in DOMAIN history
  /\ history["perro"].attempts =
       <<[correct |-> FALSE], [correct |-> FALSE], [correct |-> FALSE],
         [correct |-> TRUE]>>
  /\ get_word_weight(history, "perro") = <<3, 4>>

\* C7: a reset leaves the trainer's map and the session's map empty, from any
\* history and again when repeated; the statistics of an empty history are
\* the empty mapping.
C7_ResetEmpties ==
  /\ last.op = "reset" =>
       /\ history = EmptyHistory
       /\ ss_history = EmptyHistory
       /\ "history" \in ss_keys
       /\ aggregateByTopic(history) = NoStats
  /\ (last.op = "stats" /\ DOMAIN ss_history = {}) => DOMAIN last.stats = {}

C7_Witness == last.op = "reset" /\ last.cleared >= 2

RECURSIVE SumOver(_, _, _)
SumOver(h, ws, field) ==
  IF ws = {} THEN 0
  ELSE LET w == CHOOSE x \in ws : TRUE
       IN (IF field = "correct" THEN h[w].correct ELSE h[w].total)
            + SumOver(h, ws \ {w}, field)

WordsOf(h, t) == {w \in DOMAIN h : h[w].tematica = t}

\* C8: the statistics have exactly one entry per topic cached in the history,
\* with the sums of correct and total over the records of that topic and
\* success rate correct/total*100 (0 when total is 0).
C8_Aggregate ==
  last.op = "stats" =>
    /\ DOMAIN last.stats = {history[w].tematica : w \in DOMAIN history}
    /\ \A t \in DOMAIN last.stats :
         LET c == SumOver(history, WordsOf(history, t), "correct")
             n == SumOver(history, WordsOf(history, t), "total")
         IN /\ last.stats[t].correct = c
            /\ last.stats[t].total = n
            /\ IF n > 0
                 THEN FrEq(last.stats[t].success_rate, <<c * 100, n>>)
                 ELSE FrEq(last.stats[t].success_rate, <<0, 1>>)

C8_Witness ==
  /\ last.op = "stats"
  /\ Cardinality(DOMAIN last.stats) >= 2
  /\ \E t \in DOMAIN last.stats :
       /\ Cardinality(WordsOf(history, t)) >= 2
       /\ last.stats[t].total = 3
       /\ last.stats[t].correct = 2

\* C9: a select_word call leaves the history map as it was, whether it
\* returns an entry or the empty result.
C9_SelectKeepsHistory ==
  [][last'.op = "select" =>
       /\ history' = history
       /\ ss_history' = ss_history]_vars

C9_Witness ==
  /\ last.op = "select"
  /\ last.raised = ""
  /\ ss_current_word = None
  /\ DOMAIN history # {}

\* C10: with a required column missing the load fails and nothing else
\* happens in the session: no selection, attempt or reset, history untouched.
C10_SchemaErrorAborts ==
  (variant = "sheets" /\ ~ (expected_columns \subseteq sheet.columns)) =>
     /\ last.op \in {"none", "init_error"}
     /\ last.op = "init_error" => last.raised = "ValueError"
     /\ ss_keys = {}
     /\ ss_history = EmptyHistory
     /\ history = EmptyHistory
     /\ ss_current_word = None
     /\ menu_option = "none"

C10_Witness ==
  /\ last.op = "init_error"
  /\ "TEMATICA" \notin sheet.columns

\* C11: every record of the history has 0 <= correct <= total, in the
\* trainer's map and in the session's.
C11_CountsOrdered ==
  /\ \A w \in DOMAIN history :
       0 <= history[w].correct /\ history[w].correct <= history[w].total
  /\ \A w \in DOMAIN ss_history :
       0 <= ss_history[w].correct /\ ss_history[w].correct <= ss_history[w].total

C11_Witness ==
  /\ last.op = "reset_page"
  /\ \E w \in DOMAIN history : history[w].correct = 2 /\ history[w].total = 3
  /\ \E w \in DOMAIN history : history[w].correct = 0 /\ history[w].total = 1

\* the words of the loaded table
BankWords == {r.espanol : r \in Candidates(df, None)}

\* C12: a word has a record exactly when an answer was submitted for it since
\* the last reset; a record has total >= 1; no run other than an
\* answer-submit creates a record, and no run other than a reset removes one
\* or lowers a count.
C12_Lifecycle ==
  [][/\ DOMAIN history' = attempted'
     /\ DOMAIN ss_history' = attempted'
     /\ \A w \in DOMAIN history' : history'[w].total >= 1
     /\ last'.op # "comprobar" => DOMAIN history' \subseteq DOMAIN history
     /\ last'.op # "reset" =>
          \A w \in DOMAIN history :
            /\ w \in DOMAIN history'
            /\ history'[w].total >= history[w].total
            /\ history'[w].correct >= history[w].correct]_vars

C12_Witness ==
  /\ last.op = "select"
  /\ Cardinality(attempted) = 2
  /\ DOMAIN history = attempted
  /\ BankWords \ DOMAIN history # {}
  /\ ss_current_word # None
  /\ ss_current_word[1].espanol \notin DOMAIN history

\* C13: a record keeps the topic of the entry of the word's first attempt
\* since the last reset; a later attempt on the same word, also through
\* another entry with the same source word and another topic, does not
\* change it.
C13_TopicCached ==
  [][/\ last'.op = "comprobar" =>
          LET e == ss_current_word[1]
          IN history'[e.espanol].tematica =
               (IF e.espanol \in DOMAIN ss_history
                  THEN ss_history[e.espanol].tematica
                  ELSE e.tematica)
     /\ \A w \in DOMAIN history \cap DOMAIN history' :
          history'[w].tematica = history[w].tematica]_vars

C13_Witness ==
  /\ last.op = "comprobar"
  /\ ss_current_word[1].espanol = "banco"
  /\ history["banco"].total = 2
  /\ history["banco"].tematica # ss_current_word[1].tematica

\* the number of entries of an attempt log flagged correct
Flagged(log) == Cardinality({i \in 1..Len(log) : log[i].correct})

\* C14: with the attempt log kept, an answer-submit appends exactly one entry
\* to the log of the displayed word, flagged with the match result, and leaves
\* the earlier entries as they were; the length of a log is the record's
\* total and its number of entries flagged correct is the record's correct.
C14_LogAppendOnly ==
  [][variant = "sheets" =>
       /\ last'.op = "comprobar" =>
            LET w == ss_current_word[1].espanol
                old == IF w \in DOMAIN ss_history
                         THEN ss_history[w].attempts ELSE <<>>
            IN history'[w].attempts =
                 Append(old, [correct |-> last'.matched])
       /\ last'.op # "reset" =>
            \A w \in DOMAIN history :
              /\ w \in DOMAIN history'
              /\ Len(history'[w].attempts) >= Len(history[w].attempts)
              /\ SubSeq(history'[w].attempts, 1, Len(history[w].attempts))
                   = history[w].attempts
       /\ \A w \in DOMAIN history' :
            /\ Len(history'[w].attempts) = history'[w].total
            /\ Flagged(history'[w].attempts) = history'[w].correct]_vars

C14_Witness ==
  /\ variant = "sheets"
  /\ last.op = "comprobar"
  /\ \E w \in DOMAIN history :
       history[w].attempts =
         <<[correct |-> TRUE], [correct |-> FALSE], [correct |-> TRUE]>>

\* C15: when some candidate has positive weight, select_word does not return
\* a candidate of weight 0.
C15_ZeroWeightNotDrawn ==
  (/\ last.op = "select"
   /\ last.raised = ""
   /\ ss_current_word # None
   /\ \E r \in Candidates(df, last.topic) :
        FrLess(<<0, 1>>, get_word_weight(history, r.espanol))) =>
     FrLess(<<0, 1>>, get_word_weight(history, ss_current_word[1].espanol))

C15_Witness ==
  /\ last.op = "select"
  /\ last.raised = ""
  /\ last.topic # None
  /\ ss_current_word # None
  /\ ss_current_word[1].tematica = last.topic[1]
  /\ history # EmptyHistory
  /\ \E r \in Candidates(df, last.topic) :
       /\ r.espanol \in DOMAIN history
       /\ history[r.espanol].correct = history[r.espanol].total
  /\ FrLess(<<0, 1>>, get_word_weight(history, ss_current_word[1].espanol))

\* C16: an answer-submit changes only the record of the displayed word: the
\* other keys of the history and their records stay as they were.
C16_OnlyDisplayedWord ==
  [][last'.op = "comprobar" =>
       LET word == ss_current_word[1].espanol
       IN /\ DOMAIN history' \ {word} = DOMAIN ss_history \ {word}
          /\ \A w \in DOMAIN ss_history \ {word} : history'[w] = ss_history[w]
          /\ ss_history' = history']_vars

C16_Witness ==
  /\ last.op = "comprobar"
  /\ Cardinality(DOMAIN history) >= 3
  /\ \E w \in DOMAIN history :
       /\ w # ss_current_word[1].espanol
       /\ history[w].tematica = ss_current_word[1].tematica

\* the current-word pointer of the session: whether it is set, and its value
Pointer == <<"current_word" \in ss_keys, ss_current_word>>

\* C17: the current-word pointer changes only in the first selection (no
\* current word in the session) and on 'Siguiente palabra'; an answer-submit,
\* a change of topic or of menu and a reset leave it as it is, and an
\* answer-submit is recorded against the word it points to.
C17_PointerFrame ==
  [][/\ Pointer' # Pointer =>
          /\ last'.op = "select"
          /\ "current_word" \notin ss_keys \/ ButtonsShown
     /\ last'.op \in {"comprobar", "show", "stats", "reset_page", "reset"} =>
          Pointer' = Pointer
     /\ ("current_word" \in ss_keys
           /\ (selected_topic' # selected_topic \/ menu_option' # menu_option)) =>
          Pointer' = Pointer
     /\ last'.op = "comprobar" =>
          /\ ss_current_word[1].espanol \in DOMAIN history'
          /\ history'[ss_current_word[1].espanol].total
               = Before(ss_history, ss_current_word[1].espanol).total + 1]_vars

C17_Witness ==
  /\ last.op = "show"
  /\ selected_topic # Sentinel
  /\ ss_current_word # None
  /\ ss_current_word[1].tematica # selected_topic
  /\ ss_current_word[1].espanol \in DOMAIN history
  /\ history[ss_current_word[1].espanol].total = 2

\* C18: the totals of all records add up to the number of answers submitted
\* since the last reset and the correct counts to the number of those that
\* matched; the totals shown per topic add up to the same numbers.
C18_Conservation ==
  /\ SumOver(history, DOMAIN history, "total") = submits
  /\ SumOver(history, DOMAIN history, "correct") = matches
  /\ SumOver(ss_history, DOMAIN ss_history, "total") = submits
  /\ SumOver(ss_history, DOMAIN ss_history, "correct") = matches
  /\ last.op = "stats" =>
       /\ SumOver(last.stats, DOMAIN last.stats, "total") = submits
       /\ SumOver(last.stats, DOMAIN last.stats, "correct") = matches

C18_Witness ==
  /\ last.op = "stats"
  /\ submits = 4
  /\ matches = 2
  /\ Cardinality(DOMAIN history) = 3
  /\ Cardinality(DOMAIN last.stats) = 2

\* C19: a correct answer never raises the weight of the word and an incorrect
\* one never lowers it, the weight without a record being 1.
C19_AdaptivityDirection ==
  [][last'.op = "comprobar" =>
       LET w == ss_current_word[1].espanol
           old == get_word_weight(ss_history, w)
           new == get_word_weight(history', w)
           correct == history'[w].correct = Before(ss_history, w).correct + 1
       IN /\ correct => FrLeq(new, old)
          /\ ~ correct => FrLeq(old, new)]_vars

C19_Witness ==
  /\ last.op = "comprobar"
  /\ ~ last.matched
  /\ history[ss_current_word[1].espanol].correct = 1
  /\ history[ss_current_word[1].espanol].total = 3
  /\ get_word_weight(history, ss_current_word[1].espanol) = <<2, 3>>

====
